---------------------------- MODULE Spec2Model ----------------------------
(***************************************************************************)
(* A model of the single-file HTTP server src/main.py: the accept loop,    *)
(* the per-connection handler threads, request parsing, routing, the file  *)
(* store and response framing.                                             *)
(*                                                                         *)
(* Python str values are sequences of code points and bytes values are     *)
(* sequences of numbers 0..255, so that decoding, splitting, stripping and *)
(* replacing are computed as the code computes them.                       *)
(***************************************************************************)
EXTENDS Integers, Sequences, FiniteSets, TLC

\* ------------------------------------------------------------------ bounds
\* Number of connections the environment opens.
MaxConn == 2
\* Number of segments a generated request path is built from (HandlerSpec).
MaxPathLen == 3
\* Stand-in for the interpreter's recursion limit (1000 by default), which
\* json.loads hits on deeply nested arrays.
JsonMaxDepth == 2
\* Number of lines a generated request text has after its request line
\* (ParseSpec).
MaxLines == 4
\* Number of pieces the content of a generated file is built from
\* (BuildSpec).
MaxBody == 3

\* ------------------------------------------------- string literals of main.py
\* 'GET'
GET == <<71,69,84>>
\* 'POST'
POST == <<80,79,83,84>>
\* 'HEAD'
HEAD == <<72,69,65,68>>
\* 'DELETE'
DELETE == <<68,69,76,69,84,69>>
\* '\r\n'
CRLF == <<13,10>>
\* 'HTTP/1.1'
HTTP11 == <<72,84,84,80,47,49,46,49>>
\* '/'
PathRoot == <<47>>
\* '/book'
PathBook == <<47,98,111,111,107>>
\* '/book.json'
PathBookJson == <<47,98,111,111,107,46,106,115,111,110>>
\* '/api/echo'
PathApiEcho == <<47,97,112,105,47,101,99,104,111>>
\* 'index.html'
NameIndexHtml == <<105,110,100,101,120,46,104,116,109,108>>
\* 'book.json'
NameBookJson == <<98,111,111,107,46,106,115,111,110>>
\* 'book'
SegBook == <<98,111,111,107>>
\* 'json'
SegJson == <<106,115,111,110>>
\* 'png'
SegPng == <<112,110,103>>
\* 'html'
SegHtml == <<104,116,109,108>>
\* 'text/html'
TypeTextHtml == <<116,101,120,116,47,104,116,109,108>>
\* 'text/plain'
TypeTextPlain == <<116,101,120,116,47,112,108,97,105,110>>
\* 'application/json'
TypeAppJson == <<97,112,112,108,105,99,97,116,105,111,110,47,106,115,111,110>>
\* 'image/png'
TypeImagePng == <<105,109,97,103,101,47,112,110,103>>
\* 'text'
PrefixText == <<116,101,120,116>>
\* 'Server'
HdrServer == <<83,101,114,118,101,114>>
\* 'Date'
HdrDate == <<68,97,116,101>>
\* 'Content-Type'
HdrContentType == <<67,111,110,116,101,110,116,45,84,121,112,101>>
\* 'Content-Length'
HdrContentLength == <<67,111,110,116,101,110,116,45,76,101,110,103,116,104>>
\* 'Connection'
HdrConnection == <<67,111,110,110,101,99,116,105,111,110>>
\* 'Allow'
HdrAllow == <<65,108,108,111,119>>
\* 'Own-Web-Server/1.0'
ValServer == <<79,119,110,45,87,101,98,45,83,101,114,118,101,114,47,49,46,48>>
\* 'Thu, 01 Jan 1970 00:00:00 GMT'
ValDate == <<84,104,117,44,32,48,49,32,74,97,110,32,49,57,55,48,32,48,48,58,48,48,58,48,48,32,71,77,84>>
\* 'close'
ValClose == <<99,108,111,115,101>>
\* 'GET, POST, HEAD'
ValAllow == <<71,69,84,44,32,80,79,83,84,44,32,72,69,65,68>>
\* 'OK'
TxtOK == <<79,75>>
\* 'Bad Request'
TxtBadRequest == <<66,97,100,32,82,101,113,117,101,115,116>>
\* 'Not Found'
TxtNotFound == <<78,111,116,32,70,111,117,110,100>>
\* 'Method Not Allowed'
TxtMethodNotAllowed == <<77,101,116,104,111,100,32,78,111,116,32,65,108,108,111,119,101,100>>
\* 'Request Timeout'
TxtRequestTimeout == <<82,101,113,117,101,115,116,32,84,105,109,101,111,117,116>>
\* 'Internal Server Error'
TxtInternalError == <<73,110,116,101,114,110,97,108,32,83,101,114,118,101,114,32,69,114,114,111,114>>
\* 'The request could not be understood by the server.'
Msg400 == <<84,104,101,32,114,101,113,117,101,115,116,32,99,111,117,108,100,32,110,111,116,32,98,101,32,117,110,100,101,114,115,116,111,111,100,32,98,121,32,116,104,101,32,115,101,114,118,101,114,46>>
\* 'The '
Msg405a == <<84,104,101,32>>
\* ' method is not supported for this resource.'
Msg405b == <<32,109,101,116,104,111,100,32,105,115,32,110,111,116,32,115,117,112,112,111,114,116,101,100,32,102,111,114,32,116,104,105,115,32,114,101,115,111,117,114,99,101,46>>
\* 'The server timed out waiting for the request.'
Msg408 == <<84,104,101,32,115,101,114,118,101,114,32,116,105,109,101,100,32,111,117,116,32,119,97,105,116,105,110,103,32,102,111,114,32,116,104,101,32,114,101,113,117,101,115,116,46>>
\* 'An unexpected error occurred on the server.'
Msg500 == <<65,110,32,117,110,101,120,112,101,99,116,101,100,32,101,114,114,111,114,32,111,99,99,117,114,114,101,100,32,111,110,32,116,104,101,32,115,101,114,118,101,114,46>>
\* 'The requested resource "'
Msg404a == <<84,104,101,32,114,101,113,117,101,115,116,101,100,32,114,101,115,111,117,114,99,101,32,34>>
\* '" was not found on this server.'
Msg404b == <<34,32,119,97,115,32,110,111,116,32,102,111,117,110,100,32,111,110,32,116,104,105,115,32,115,101,114,118,101,114,46>>
\* 'The API endpoint "'
MsgApi404a == <<84,104,101,32,65,80,73,32,101,110,100,112,111,105,110,116,32,34>>
\* '" does not exist.'
MsgApi404b == <<34,32,100,111,101,115,32,110,111,116,32,101,120,105,115,116,46>>
\* '<title>'
PageT0 == <<60,116,105,116,108,101,62>>
\* ' - '
PageT1 == <<32,45,32>>
\* '</title><h1>'
PageT2 == <<60,47,116,105,116,108,101,62,60,104,49,62>>
\* '</h1><h2>'
PageT3 == <<60,47,104,49,62,60,104,50,62>>
\* '</h2><p>'
PageT4 == <<60,47,104,50,62,60,112,62>>
\* '</p><a href="/">‚Üê Back to Home</a>'
PageT5 == <<60,47,112,62,60,97,32,104,114,101,102,61,34,47,34,62,8218,220,234,32,66,97,99,107,32,116,111,32,72,111,109,101,60,47,97,62>>
\* '{\n  "success": true,\n  "message": "Data received successfully",\n  "received": '
EnvA == <<123,10,32,32,34,115,117,99,99,101,115,115,34,58,32,116,114,117,101,44,10,32,32,34,109,101,115,115,97,103,101,34,58,32,34,68,97,116,97,32,114,101,99,101,105,118,101,100,32,115,117,99,99,101,115,115,102,117,108,108,121,34,44,10,32,32,34,114,101,99,101,105,118,101,100,34,58,32>>
\* ',\n  "timestamp": "1970-01-01T00:00:00"\n}'
EnvB == <<44,10,32,32,34,116,105,109,101,115,116,97,109,112,34,58,32,34,49,57,55,48,45,48,49,45,48,49,84,48,48,58,48,48,58,48,48,34,10,125>>
\* '{"success": false, "error": "Invalid JSON"}'
EchoError == <<123,34,115,117,99,99,101,115,115,34,58,32,102,97,108,115,101,44,32,34,101,114,114,111,114,34,58,32,34,73,110,118,97,108,105,100,32,74,83,79,78,34,125>>

\* ----------------------------------------------------------- str primitives
\* s[i:] for a 1-based i
Drop(s, i) == SubSeq(s, i, Len(s))

\* s.startswith(p)
StartsWith(s, p) == Len(p) <= Len(s) /\ SubSeq(s, 1, Len(p)) = p

\* s.find(pat, i): the least index >= i at which pat occurs in s, or 0
Find(s, pat, i) ==
    LET at == {k \in i..(Len(s) - Len(pat) + 1) :
                   \A j \in 1..Len(pat) : s[k + j - 1] = pat[j]}
    IN  IF at = {} THEN 0 ELSE CHOOSE k \in at : \A j \in at : k <= j

\* s.split(sep): the pieces between the non-overlapping occurrences of sep,
\* found left to right; empty pieces are kept
RECURSIVE Split(_, _)
Split(s, sep) ==
    LET k == Find(s, sep, 1)
    IN  IF k = 0 THEN <<s>>
        ELSE <<SubSeq(s, 1, k - 1)>> \o Split(Drop(s, k + Len(sep)), sep)

\* s.split(sep, 1)
SplitOnce(s, sep) ==
    LET k == Find(s, sep, 1)
    IN  IF k = 0 THEN <<s>>
        ELSE <<SubSeq(s, 1, k - 1), Drop(s, k + Len(sep))>>

\* sep.join(parts)
RECURSIVE Join(_, _)
Join(parts, sep) ==
    IF parts = <<>> THEN <<>>
    ELSE IF Len(parts) = 1 THEN parts[1]
    ELSE parts[1] \o sep \o Join(Tail(parts), sep)

\* s.replace(pat, '') : left to right, one pass, non-overlapping
RECURSIVE Remove(_, _)
Remove(s, pat) ==
    LET k == Find(s, pat, 1)
    IN  IF k = 0 THEN s
        ELSE SubSeq(s, 1, k - 1) \o Remove(Drop(s, k + Len(pat)), pat)

\* s.lstrip(chars)
RECURSIVE LStrip(_, _)
LStrip(s, chars) ==
    IF s # <<>> /\ s[1] \in chars THEN LStrip(Tail(s), chars) ELSE s

\* s.rstrip(chars)
RECURSIVE RStrip(_, _)
RStrip(s, chars) ==
    IF s # <<>> /\ s[Len(s)] \in chars THEN RStrip(SubSeq(s, 1, Len(s) - 1), chars)
    ELSE s

\* the code points str.split() and str.strip() treat as whitespace
Whitespace == {9, 10, 11, 12, 13, 28, 29, 30, 31, 32, 133, 160}

\* s.strip()
Strip(s) == RStrip(LStrip(s, Whitespace), Whitespace)

\* s.split(): the maximal runs of non-whitespace
RECURSIVE SplitWS(_)
SplitWS(s) ==
    LET t == LStrip(s, Whitespace)
        n == IF \E i \in 1..Len(t) : t[i] \in Whitespace
             THEN CHOOSE i \in 1..Len(t) :
                      t[i] \in Whitespace /\ \A j \in 1..(i - 1) : t[j] \notin Whitespace
             ELSE 0
    IN  IF t = <<>> THEN <<>>
        ELSE IF n = 0 THEN <<t>>
        ELSE <<SubSeq(t, 1, n - 1)>> \o SplitWS(Drop(t, n))

\* s.lower(), on the ASCII letters
Lower(s) == [i \in 1..Len(s) |-> IF s[i] \in 65..90 THEN s[i] + 32 ELSE s[i]]

\* f'{n}' for a natural number n
RECURSIVE IntToStr(_)
IntToStr(n) ==
    IF n < 10 THEN <<48 + n>> ELSE IntToStr(n \div 10) \o <<48 + (n % 10)>>

\* ------------------------------------------------------------------- UTF-8
\* One code point as UTF-8 bytes
Utf8Char(c) ==
    IF c < 128 THEN <<c>>
    ELSE IF c < 2048 THEN <<192 + (c \div 64), 128 + (c % 64)>>
    ELSE IF c < 65536
         THEN <<224 + (c \div 4096), 128 + ((c \div 64) % 64), 128 + (c % 64)>>
    ELSE <<240 + (c \div 262144), 128 + ((c \div 4096) % 64),
           128 + ((c \div 64) % 64), 128 + (c % 64)>>

\* text.encode('utf-8'): the bytes of the code points, in order (ASCII text
\* is its own encoding)
RECURSIVE Utf8Encode(_)
Utf8Encode(s) ==
    IF \A i \in 1..Len(s) : s[i] < 128 THEN s
    ELSE IF Len(s) = 1 THEN Utf8Char(s[1])
    ELSE Utf8Encode(SubSeq(s, 1, Len(s) \div 2))
         \o Utf8Encode(SubSeq(s, Len(s) \div 2 + 1, Len(s)))

IsCont(b, i) == i <= Len(b) /\ b[i] \in 128..191

\* The length of the well-formed UTF-8 sequence at the head of b: 0 when the
\* head is not one (stray continuation byte, truncated or overlong sequence,
\* surrogate, byte above 0xF4)
Utf8HeadLen(b) ==
    LET h == b[1]
    IN  IF h < 128 THEN 1
        ELSE IF h \in 194..223 /\ IsCont(b, 2) THEN 2
        ELSE IF h \in 224..239 /\ IsCont(b, 2) /\ IsCont(b, 3)
                /\ (h = 224 => b[2] >= 160) /\ (h = 237 => b[2] < 160) THEN 3
        ELSE IF h \in 240..244 /\ IsCont(b, 2) /\ IsCont(b, 3) /\ IsCont(b, 4)
                /\ (h = 240 => b[2] >= 144) /\ (h = 244 => b[2] < 144) THEN 4
        ELSE 0

Utf8HeadChar(b, n) ==
    IF n = 1 THEN b[1]
    ELSE IF n = 2 THEN (b[1] - 192) * 64 + (b[2] - 128)
    ELSE IF n = 3 THEN (b[1] - 224) * 4096 + (b[2] - 128) * 64 + (b[3] - 128)
    ELSE (b[1] - 240) * 262144 + (b[2] - 128) * 4096 + (b[3] - 128) * 64 + (b[4] - 128)

\* Whether bytes.decode('utf-8') returns (it raises UnicodeDecodeError
\* otherwise); ASCII bytes always decode
RECURSIVE Utf8Valid(_)
Utf8Valid(b) ==
    IF \A i \in 1..Len(b) : b[i] < 128 THEN TRUE
    ELSE LET n == Utf8HeadLen(b) IN n > 0 /\ Utf8Valid(Drop(b, n + 1))

\* bytes.decode('utf-8') of well-formed bytes
RECURSIVE Utf8Decode(_)
Utf8Decode(b) ==
    IF \A i \in 1..Len(b) : b[i] < 128 THEN b
    ELSE LET n == Utf8HeadLen(b)
         IN  <<Utf8HeadChar(b, n)>> \o Utf8Decode(Drop(b, n + 1))

\* ------------------------------------------------------ json.loads / dumps
\* A parsed JSON document: an integer, an array of documents, or the empty
\* object.  JsonLoads is json.loads on the texts made of digits, brackets,
\* commas, "{}" and whitespace (and any text whose first significant
\* character starts no JSON value); strings, floats, literals and objects
\* with members are outside this fragment.
JsonInt(n) == [t |-> "int", n |-> n, items |-> <<>>]
JsonArr(items) == [t |-> "arr", n |-> 0, items |-> items]
JsonObj == [t |-> "obj", n |-> 0, items |-> <<>>]

JsonOk(v, next) == [res |-> "ok", val |-> v, next |-> next]
\* json.JSONDecodeError
JsonDecodeError == [res |-> "JSONDecodeError", val |-> JsonObj, next |-> 0]
\* RecursionError: raised by the scanner when arrays nest deeper than the
\* interpreter allows; it is not a JSONDecodeError
JsonRecursionError == [res |-> "RecursionError", val |-> JsonObj, next |-> 0]

JsonWhitespace == {32, 9, 10, 13}

RECURSIVE JsonSkip(_, _)
JsonSkip(s, i) ==
    IF i <= Len(s) /\ s[i] \in JsonWhitespace THEN JsonSkip(s, i + 1) ELSE i

\* The digits of an integer that starts at i with a non-zero digit
RECURSIVE JsonDigits(_, _, _)
JsonDigits(s, i, acc) ==
    IF i <= Len(s) /\ s[i] \in 48..57
    THEN JsonDigits(s, i + 1, acc * 10 + (s[i] - 48))
    ELSE JsonOk(JsonInt(acc), i)

RECURSIVE JsonValue(_, _, _, _)
RECURSIVE JsonItems(_, _, _, _, _)

\* scan_once at index i, inside depth arrays, where limit is the deepest
\* nesting the interpreter allows
JsonValue(s, i, depth, limit) ==
    IF i > Len(s) THEN JsonDecodeError
    ELSE IF s[i] = 91
         THEN IF depth + 1 > limit THEN JsonRecursionError
              ELSE LET j == JsonSkip(s, i + 1)
                   IN  IF j <= Len(s) /\ s[j] = 93 THEN JsonOk(JsonArr(<<>>), j + 1)
                       ELSE JsonItems(s, j, depth + 1, limit, <<>>)
    ELSE IF s[i] = 123
         THEN IF depth + 1 > limit THEN JsonRecursionError
              ELSE LET j == JsonSkip(s, i + 1)
                   IN  IF j <= Len(s) /\ s[j] = 125 THEN JsonOk(JsonObj, j + 1)
                       ELSE JsonDecodeError
    ELSE IF s[i] = 48 THEN JsonOk(JsonInt(0), i + 1)
    ELSE IF s[i] \in 49..57 THEN JsonDigits(s, i, 0)
    ELSE JsonDecodeError

\* The elements of an array from index i on, up to its closing bracket
JsonItems(s, i, depth, limit, acc) ==
    LET v == JsonValue(s, i, depth, limit)
    IN  IF v.res # "ok" THEN v
        ELSE LET j == JsonSkip(s, v.next)
             IN  IF j > Len(s) THEN JsonDecodeError
                 ELSE IF s[j] = 93 THEN JsonOk(JsonArr(Append(acc, v.val)), j + 1)
                 ELSE IF s[j] = 44
                      THEN JsonItems(s, JsonSkip(s, j + 1), depth, limit, Append(acc, v.val))
                 ELSE JsonDecodeError

\* A document, surrounded by whitespace only
JsonDocument(s, limit) ==
    LET v == JsonValue(s, JsonSkip(s, 1), 0, limit)
    IN  IF v.res # "ok" THEN v
        ELSE IF JsonSkip(s, v.next) # Len(s) + 1 THEN JsonDecodeError
        ELSE v

\* json.loads(s)
JsonLoads(s) == JsonDocument(s, JsonMaxDepth)

RECURSIVE Spaces(_)
Spaces(n) == IF n = 0 THEN <<>> ELSE <<32>> \o Spaces(n - 1)

\* json.dumps(v, indent=2) of a document nested at the given level
RECURSIVE JsonDumps(_, _)
RECURSIVE JsonDumpItems(_, _)
JsonDumps(v, level) ==
    IF v.t = "int" THEN IntToStr(v.n)
    ELSE IF v.t = "obj" THEN <<123, 125>>
    ELSE IF v.items = <<>> THEN <<91, 93>>
    ELSE <<91, 10>> \o JsonDumpItems(v.items, level + 1)
         \o <<10>> \o Spaces(2 * level) \o <<93>>

JsonDumpItems(items, level) ==
    Spaces(2 * level) \o JsonDumps(items[1], level)
    \o (IF Len(items) = 1 THEN <<>>
        ELSE <<44, 10>> \o JsonDumpItems(Tail(items), level))

\* ------------------------------------------------------------- mimetypes
\* s.rfind(c): the last index of c in s, or 0
RFind(s, c) ==
    IF \E i \in 1..Len(s) : s[i] = c
    THEN CHOOSE i \in 1..Len(s) : s[i] = c /\ \A j \in (i + 1)..Len(s) : s[j] # c
    ELSE 0

\* posixpath.splitext(p)[1]: the extension, from the last dot of the last
\* component on, unless that component has only dots before that dot
SplitExt(p) ==
    LET sep == RFind(p, 47)
        dot == RFind(p, 46)
    IN  IF dot > sep /\ \E k \in (sep + 1)..(dot - 1) : p[k] # 46
        THEN Drop(p, dot)
        ELSE <<>>

\* The entries of mimetypes.types_map for the extensions the model uses
TypesMap(ext) ==
    IF ext = <<46>> \o SegHtml THEN TypeTextHtml
    ELSE IF ext = <<46>> \o SegJson THEN TypeAppJson
    ELSE IF ext = <<46>> \o SegPng THEN TypeImagePng
    ELSE <<>>

get_content_type(file_path) ==
    LET content_type == TypesMap(Lower(SplitExt(file_path)))
    IN  IF content_type # <<>> THEN content_type ELSE TypeTextPlain

\* ------------------------------------------------------------ the file store
\* A file: absolute or relative to the serving directory, its path
\* components, its bytes on disk, and whether the process may read it.
File(abs, comps, bytes, readable) ==
    [abs |-> abs, comps |-> comps, bytes |-> bytes, readable |-> readable]

\* The serving directory holds index.html, book.json, book.png, an unreadable
\* .json and a directory book with a file .json that is not UTF-8; /book is
\* a file outside the serving directory.
StoreFull ==
    { File(FALSE, <<NameIndexHtml>>, <<104, 105, 13, 10>>, TRUE),
      File(FALSE, <<NameBookJson>>, <<195, 169>>, TRUE),
      File(FALSE, <<SegBook \o <<46>> \o SegPng>>, <<137, 80>>, TRUE),
      File(FALSE, <<<<46>> \o SegJson>>, <<123, 125>>, FALSE),
      File(FALSE, <<SegBook, <<46>> \o SegJson>>, <<255>>, TRUE),
      File(TRUE, <<SegBook>>, <<115, 101, 99, 114, 101, 116>>, TRUE) }

StoreEmpty == {}

StoreConfigs == {StoreFull, StoreEmpty}

\* The components the operating system walks for a path name
FsComps(name) ==
    SelectSeq(Split(name, <<47>>), LAMBDA c : c # <<>> /\ c # <<46>>)

FsAbs(name) == name # <<>> /\ name[1] = 47

\* A name that ends in a slash or in a dot component names a directory
FsWantsDir(name) ==
    LET parts == Split(name, <<47>>)
    IN  parts[Len(parts)] = <<>> \/ parts[Len(parts)] = <<46>>

FsIsFile(fs, name) ==
    /\ name # <<>>
    /\ ~FsWantsDir(name)
    /\ \E f \in fs : f.abs = FsAbs(name) /\ f.comps = FsComps(name)

FsIsDir(fs, name) ==
    /\ name # <<>>
    /\ \/ FsComps(name) = <<>>
       \/ \E f \in fs :
              /\ f.abs = FsAbs(name)
              /\ Len(f.comps) > Len(FsComps(name))
              /\ SubSeq(f.comps, 1, Len(FsComps(name))) = FsComps(name)

FsFile(fs, name) ==
    CHOOSE f \in fs : f.abs = FsAbs(name) /\ f.comps = FsComps(name)

\* os.path.exists(file_path)
FsExists(fs, name) == FsIsFile(fs, name) \/ FsIsDir(fs, name)

\* What open(..., 'r') hands back for the decoded text: '\r\n' and '\r'
\* become '\n'
RECURSIVE UniversalNewlines(_)
UniversalNewlines(s) ==
    IF s = <<>> THEN <<>>
    ELSE IF s[1] = 13
         THEN <<10>> \o UniversalNewlines(
                  IF Len(s) >= 2 /\ s[2] = 10 THEN Drop(s, 3) ELSE Tail(s))
    ELSE <<s[1]>> \o UniversalNewlines(Tail(s))

\* A str or bytes value
Text(s) == [bytes |-> FALSE, data |-> s]
Bytes(b) == [bytes |-> TRUE, data |-> b]

ReadResult(success, content, error) ==
    [success |-> success, content |-> content, error |-> error]

read_file_safely(fs, file_path) ==
    IF ~FsExists(fs, file_path)
    THEN ReadResult(FALSE, Text(<<>>), "NotFound")
    ELSE LET content_type == get_content_type(file_path)
             is_binary == ~StartsWith(content_type, PrefixText)
                          /\ content_type # TypeAppJson
         IN  IF FsIsDir(fs, file_path)
             THEN ReadResult(FALSE, Text(<<>>), "IOError")
             ELSE IF ~FsFile(fs, file_path).readable
             THEN ReadResult(FALSE, Text(<<>>), "Denied")
             ELSE IF is_binary
             THEN ReadResult(TRUE, Bytes(FsFile(fs, file_path).bytes), "None")
             ELSE IF ~Utf8Valid(FsFile(fs, file_path).bytes)
             THEN ReadResult(FALSE, Text(<<>>), "IOError")
             ELSE ReadResult(TRUE,
                      Text(UniversalNewlines(Utf8Decode(FsFile(fs, file_path).bytes))),
                      "None")

\* ------------------------------------------------------------- responses
\* dict.update on an insertion-ordered dict held as a sequence of pairs
RECURSIVE DictUpdate(_, _)
DictSet(d, k, v) ==
    IF \E i \in 1..Len(d) : d[i][1] = k
    THEN [i \in 1..Len(d) |-> IF d[i][1] = k THEN <<k, v>> ELSE d[i]]
    ELSE Append(d, <<k, v>>)

DictUpdate(d, extra) ==
    IF extra = <<>> THEN d
    ELSE DictUpdate(DictSet(d, extra[1][1], extra[1][2]), Tail(extra))

DictHas(d, k) == \E i \in 1..Len(d) : d[i][1] = k

DictGet(d, k) == d[CHOOSE i \in 1..Len(d) : d[i][1] = k][2]

\* The header section: a line 'key: value' and a CRLF for every header, in
\* the order of the dict
RECURSIVE HeaderSection(_)
HeaderSection(headers) ==
    IF headers = <<>> THEN <<>>
    ELSE headers[1][1] \o <<58, 32>> \o headers[1][2] \o CRLF
         \o HeaderSection(Tail(headers))

\* build_response counting the characters of a text body
build_response_char_length(status_code, status_text, content, content_type, extra_headers) ==
    LET headers ==
            << <<HdrServer, ValServer>>,
               <<HdrDate, ValDate>>,
               <<HdrContentType, content_type>>,
               <<HdrContentLength, IntToStr(Len(content.data))>>,
               <<HdrConnection, ValClose>> >>
    IN  [status_code |-> status_code,
         status_text |-> status_text,
         headers |-> DictUpdate(headers, extra_headers),
         body |-> IF content.bytes THEN content.data ELSE Utf8Encode(content.data)]

\* The pieces build_response puts on the wire: the status line, the header
\* lines in order, and the body bytes that follow the empty line
build_response(status_code, status_text, content, content_type, extra_headers) ==
    LET headers ==
            << <<HdrServer, ValServer>>,
               <<HdrDate, ValDate>>,
               <<HdrContentType, content_type>>,
               <<HdrContentLength,
                 IntToStr(IF content.bytes THEN Len(content.data)
                          ELSE Len(Utf8Encode(content.data)))>>,
               <<HdrConnection, ValClose>> >>
    IN  [status_code |-> status_code,
         status_text |-> status_text,
         headers |-> DictUpdate(headers, extra_headers),
         body |-> IF content.bytes THEN content.data ELSE Utf8Encode(content.data)]

\* Wire without the empty line after the header section
WireNoEmptyLine(r) ==
    LET response == HTTP11 \o <<32>> \o IntToStr(r.status_code) \o <<32>>
                    \o r.status_text \o CRLF \o HeaderSection(r.headers)
    IN  Utf8Encode(response) \o r.body

\* The bytes build_response returns, which sendall writes: the status line,
\* the header section and the empty line, encoded, and then the body
Wire(r) ==
    LET response == HTTP11 \o <<32>> \o IntToStr(r.status_code) \o <<32>>
                    \o r.status_text \o CRLF \o HeaderSection(r.headers) \o CRLF
    IN  Utf8Encode(response) \o r.body

\* The template, with title, code, text and message in their places (the
\* style sheet and the wrapping markup are left out)
create_error_page(status_code, status_text, message) ==
    PageT0 \o IntToStr(status_code) \o PageT1 \o status_text \o PageT2
    \o IntToStr(status_code) \o PageT3 \o status_text \o PageT4
    \o message \o PageT5

\* ------------------------------------------------------------- parse_request
NoRequest ==
    [ok |-> FALSE, method |-> <<>>, path |-> <<>>, http_version |-> <<>>,
     headers |-> <<>>, body |-> <<>>]

\* ParseHeaders keeping the value a name already has (dict.setdefault)
RECURSIVE ParseHeadersKeepFirst(_, _, _)
ParseHeadersKeepFirst(lines, i, headers) ==
    IF i > Len(lines) THEN [headers |-> headers, body_start |-> 0]
    ELSE IF lines[i] = <<>> THEN [headers |-> headers, body_start |-> i + 1]
    ELSE IF Find(lines[i], <<58>>, 1) > 0
         THEN LET kv == SplitOnce(lines[i], <<58>>)
                  key == Lower(Strip(kv[1]))
              IN  ParseHeadersKeepFirst(lines, i + 1,
                      IF DictHas(headers, key) THEN headers
                      ELSE DictSet(headers, key, Strip(kv[2])))
    ELSE ParseHeadersKeepFirst(lines, i + 1, headers)

\* The header lines of lines[from..], up to the first empty line
RECURSIVE ParseHeaders(_, _, _)
ParseHeaders(lines, i, headers) ==
    IF i > Len(lines) THEN [headers |-> headers, body_start |-> 0]
    ELSE IF lines[i] = <<>> THEN [headers |-> headers, body_start |-> i + 1]
    ELSE IF Find(lines[i], <<58>>, 1) > 0
         THEN LET kv == SplitOnce(lines[i], <<58>>)
              IN  ParseHeaders(lines, i + 1,
                      DictSet(headers, Lower(Strip(kv[1])), Strip(kv[2])))
    ELSE ParseHeaders(lines, i + 1, headers)

\* parse_request splitting the request line at single spaces
parse_request_split_space(request_data) ==
    LET lines == Split(request_data, CRLF)
        request_line_parts == Split(lines[1], <<32>>)
        h == ParseHeaders(lines, 2, <<>>)
    IN  IF lines[1] = <<>> THEN NoRequest
        ELSE IF Len(request_line_parts) < 2 THEN NoRequest
        ELSE [ok |-> TRUE,
              method |-> request_line_parts[1],
              path |-> request_line_parts[2],
              http_version |-> IF Len(request_line_parts) > 2
                               THEN request_line_parts[3] ELSE HTTP11,
              headers |-> h.headers,
              body |-> IF h.body_start > 0
                       THEN Join(SubSeq(lines, h.body_start, Len(lines)), CRLF)
                       ELSE <<>>]

\* parse_request joining the body lines with a line feed
parse_request_join_lf(request_data) ==
    LET lines == Split(request_data, CRLF)
        request_line_parts == SplitWS(lines[1])
        h == ParseHeaders(lines, 2, <<>>)
    IN  IF lines[1] = <<>> THEN NoRequest
        ELSE IF Len(request_line_parts) < 2 THEN NoRequest
        ELSE [ok |-> TRUE,
              method |-> request_line_parts[1],
              path |-> request_line_parts[2],
              http_version |-> IF Len(request_line_parts) > 2
                               THEN request_line_parts[3] ELSE HTTP11,
              headers |-> h.headers,
              body |-> IF h.body_start > 0
                       THEN Join(SubSeq(lines, h.body_start, Len(lines)), <<10>>)
                       ELSE <<>>]

parse_request(request_data) ==
    LET lines == Split(request_data, CRLF)
        request_line_parts == SplitWS(lines[1])
        h == ParseHeaders(lines, 2, <<>>)
    IN  IF lines[1] = <<>> THEN NoRequest
        ELSE IF Len(request_line_parts) < 2 THEN NoRequest
        ELSE [ok |-> TRUE,
              method |-> request_line_parts[1],
              path |-> request_line_parts[2],
              http_version |-> IF Len(request_line_parts) > 2
                               THEN request_line_parts[3] ELSE HTTP11,
              headers |-> h.headers,
              body |-> IF h.body_start > 0
                       THEN Join(SubSeq(lines, h.body_start, Len(lines)), CRLF)
                       ELSE <<>>]

\* ---------------------------------------------------------------- handlers
\* What a method handler does before it writes to the socket: the response
\* it builds and the resource names it asked the store for, or the
\* exception it raises instead
Respond(response, names) ==
    [raised |-> "None", response |-> response, files |-> names]

NoResponse ==
    [status_code |-> 0, status_text |-> <<>>, headers |-> <<>>, body |-> <<>>]

Raise(exception) == [raised |-> exception, response |-> NoResponse, files |-> <<>>]

route_map ==
    << <<PathRoot, NameIndexHtml>>,
       <<PathBook, NameBookJson>>,
       <<PathBookJson, NameBookJson>> >>

\* handle_get_request answering 403 when the store refuses the read
handle_get_request_403(fs, request_path) ==
    LET path == Split(request_path, <<63>>)[1]
        file_path == IF DictHas(route_map, path) THEN DictGet(route_map, path)
                     ELSE Remove(LStrip(path, {47}), <<46, 46>>)
        read == read_file_safely(fs, file_path)
    IN  IF read.success
        THEN Respond(build_response(200, TxtOK, read.content,
                                    get_content_type(file_path), <<>>),
                     <<file_path>>)
        ELSE Respond(build_response(IF read.error = "Denied" THEN 403 ELSE 404,
                         TxtNotFound,
                         Text(create_error_page(404, TxtNotFound,
                                                Msg404a \o path \o Msg404b)),
                         TypeTextHtml, <<>>),
                     <<file_path>>)

\* handle_get_request removing every '../' instead of every '..'
handle_get_request_dotdot_slash(fs, request_path) ==
    LET path == Split(request_path, <<63>>)[1]
        file_path == IF DictHas(route_map, path) THEN DictGet(route_map, path)
                     ELSE Remove(LStrip(path, {47}), <<46, 46, 47>>)
        read == read_file_safely(fs, file_path)
    IN  IF read.success
        THEN Respond(build_response(200, TxtOK, read.content,
                                    get_content_type(file_path), <<>>),
                     <<file_path>>)
        ELSE Respond(build_response(404, TxtNotFound,
                         Text(create_error_page(404, TxtNotFound,
                                                Msg404a \o path \o Msg404b)),
                         TypeTextHtml, <<>>),
                     <<file_path>>)

handle_get_request(fs, request_path) ==
    LET path == Split(request_path, <<63>>)[1]
        file_path == IF DictHas(route_map, path) THEN DictGet(route_map, path)
                     ELSE Remove(LStrip(path, {47}), <<46, 46>>)
        read == read_file_safely(fs, file_path)
    IN  IF read.success
        THEN Respond(build_response(200, TxtOK, read.content,
                                    get_content_type(file_path), <<>>),
                     <<file_path>>)
        ELSE Respond(build_response(404, TxtNotFound,
                         Text(create_error_page(404, TxtNotFound,
                                                Msg404a \o path \o Msg404b)),
                         TypeTextHtml, <<>>),
                     <<file_path>>)

handle_post_request(path, body) ==
    IF path = PathApiEcho
    THEN LET data == IF body # <<>> THEN JsonLoads(body) ELSE JsonOk(JsonObj, 0)
         IN  IF data.res = "ok"
             THEN Respond(build_response(200, TxtOK,
                              Text(EnvA \o JsonDumps(data.val, 1) \o EnvB),
                              TypeAppJson, <<>>), <<>>)
             ELSE IF data.res = "JSONDecodeError"
             THEN Respond(build_response(400, TxtBadRequest, Text(EchoError),
                                         TypeAppJson, <<>>), <<>>)
             ELSE Raise(data.res)
    ELSE Respond(build_response(404, TxtNotFound,
                     Text(create_error_page(404, TxtNotFound,
                                            MsgApi404a \o path \o MsgApi404b)),
                     TypeTextHtml, <<>>), <<>>)

\* handle_head_request without the removal of the query suffix
handle_head_request_query(fs, request_path) ==
    LET path == request_path
        default == Remove(LStrip(path, {47}), <<46, 46>>)
        file_path == IF DictHas(route_map, path) THEN DictGet(route_map, path)
                     ELSE default
        read == read_file_safely(fs, file_path)
    IN  IF read.success
        THEN Respond(build_response(200, TxtOK, Text(<<>>),
                                    get_content_type(file_path), <<>>),
                     <<file_path>>)
        ELSE Respond(build_response(404, TxtNotFound, Text(<<>>), TypeTextHtml, <<>>),
                     <<file_path>>)

\* handle_head_request answering a failed read with the error page, as
\* handle_get_request does
handle_head_request_page(fs, request_path) ==
    LET path == Split(request_path, <<63>>)[1]
        default == Remove(LStrip(path, {47}), <<46, 46>>)
        file_path == IF DictHas(route_map, path) THEN DictGet(route_map, path)
                     ELSE default
        read == read_file_safely(fs, file_path)
    IN  IF read.success
        THEN Respond(build_response(200, TxtOK, Text(<<>>),
                                    get_content_type(file_path), <<>>),
                     <<file_path>>)
        ELSE Respond(build_response(404, TxtNotFound,
                         Text(create_error_page(404, TxtNotFound,
                                                Msg404a \o path \o Msg404b)),
                         TypeTextHtml, <<>>),
                     <<file_path>>)

handle_head_request(fs, request_path) ==
    LET path == Split(request_path, <<63>>)[1]
        default == Remove(LStrip(path, {47}), <<46, 46>>)
        file_path == IF DictHas(route_map, path) THEN DictGet(route_map, path)
                     ELSE default
        read == read_file_safely(fs, file_path)
    IN  IF read.success
        THEN Respond(build_response(200, TxtOK, Text(<<>>),
                                    get_content_type(file_path), <<>>),
                     <<file_path>>)
        ELSE Respond(build_response(404, TxtNotFound, Text(<<>>), TypeTextHtml, <<>>),
                     <<file_path>>)

\* The 400, 405, 408 and 500 responses of handle_client
Response400 ==
    build_response(400, TxtBadRequest,
        Text(create_error_page(400, TxtBadRequest, Msg400)), TypeTextHtml, <<>>)

Response405(method) ==
    build_response(405, TxtMethodNotAllowed,
        Text(create_error_page(405, TxtMethodNotAllowed,
                               Msg405a \o method \o Msg405b)),
        TypeTextHtml, << <<HdrAllow, ValAllow>> >>)

Response408 ==
    build_response(408, TxtRequestTimeout,
        Text(create_error_page(408, TxtRequestTimeout, Msg408)), TypeTextHtml, <<>>)

Response500 ==
    build_response(500, TxtInternalError,
        Text(create_error_page(500, TxtInternalError, Msg500)), TypeTextHtml, <<>>)

\* HandleRequest comparing the method without regard to case
HandleRequestAnyCase(fs, bytes) ==
    IF ~Utf8Valid(bytes) THEN Raise("UnicodeDecodeError")
    ELSE LET request == parse_request(Utf8Decode(bytes))
         IN  IF ~request.ok THEN Respond(Response400, <<>>)
             ELSE IF Lower(request.method) = Lower(GET)
                  THEN handle_get_request(fs, request.path)
             ELSE IF Lower(request.method) = Lower(POST)
                  THEN handle_post_request(request.path, request.body)
             ELSE IF Lower(request.method) = Lower(HEAD)
                  THEN handle_head_request(fs, request.path)
             ELSE Respond(Response405(request.method), <<>>)

\* The body of handle_client's try block from the bytes recv returned (not
\* empty) to the first write: decode, parse, dispatch on the method
HandleRequest(fs, bytes) ==
    IF ~Utf8Valid(bytes) THEN Raise("UnicodeDecodeError")
    ELSE LET request == parse_request(Utf8Decode(bytes))
         IN  IF ~request.ok THEN Respond(Response400, <<>>)
             ELSE IF request.method = GET
                  THEN handle_get_request(fs, request.path)
             ELSE IF request.method = POST
                  THEN handle_post_request(request.path, request.body)
             ELSE IF request.method = HEAD
                  THEN handle_head_request(fs, request.path)
             ELSE Respond(Response405(request.method), <<>>)

\* ------------------------------------------------------------------- state
Conns == 1..MaxConn

VARIABLES
    mainPc,      \* where the main thread is: "accept", "start", "interrupted",
                 \* "fatal", "stopped" (server socket closed), "exited"
    listening,   \* whether server_socket is open
    store,       \* the files under and outside the serving directory
    pc,          \* per connection: "idle", "accepted", "recv", "send",
                 \* "except", "finally", "done"
    recvd,       \* per connection: how recv ended
    request_data, \* per connection: the bytes recv returned
    pending,     \* per connection: the response about to be written
    files,       \* per connection: the names read_file_safely was called with
    trace        \* per connection: the sendall and close calls made, in order

vars == <<mainPc, listening, store, pc, recvd, request_data, pending, files, trace>>

mainVars == <<mainPc, listening>>
connVars == <<pc, recvd, request_data, pending, files, trace>>

SendEvent(response, result) == [ev |-> "send", response |-> response, result |-> result]
CloseEvent == [ev |-> "close", response |-> NoResponse, result |-> "ok"]

InitWith(stores) ==
    /\ mainPc = "accept"
    /\ listening = TRUE
    /\ store \in stores
    /\ pc = [c \in Conns |-> "idle"]
    /\ recvd = [c \in Conns |-> "none"]
    /\ request_data = [c \in Conns |-> <<>>]
    /\ pending = [c \in Conns |-> NoResponse]
    /\ files = [c \in Conns |-> <<>>]
    /\ trace = [c \in Conns |-> <<>>]

Init == InitWith({StoreFull})

\* --------------------------------------------------------------- main loop
\* Accept with the loop joining the handler threads before it accepts again
AcceptAfterJoin(c) ==
    /\ mainPc = "accept"
    /\ pc[c] = "idle"
    /\ \A d \in Conns : d < c => pc[d] = "done"
    /\ mainPc' = "start"
    /\ pc' = [pc EXCEPT ![c] = "accepted"]
    /\ UNCHANGED <<listening, store, recvd, request_data, pending, files, trace>>

\* server_socket.accept() returns the next connection
Accept(c) ==
    /\ mainPc = "accept"
    /\ pc[c] = "idle"
    /\ \A d \in Conns : d < c => pc[d] # "idle"
    /\ mainPc' = "start"
    /\ pc' = [pc EXCEPT ![c] = "accepted"]
    /\ UNCHANGED <<listening, store, recvd, request_data, pending, files, trace>>

\* The daemon thread for the accepted connection is created and started;
\* the loop goes back to accept()
StartThread(c) ==
    /\ mainPc = "start"
    /\ pc[c] = "accepted"
    /\ mainPc' = "accept"
    /\ pc' = [pc EXCEPT ![c] = "recv"]
    /\ UNCHANGED <<listening, store, recvd, request_data, pending, files, trace>>

\* accept() raises socket.timeout: continue
AcceptTimeout ==
    /\ mainPc = "accept"
    /\ UNCHANGED <<mainPc, listening, store, connVars>>

\* KeyboardInterrupt inside the loop: log, break
Interrupt ==
    /\ mainPc \in {"accept", "start"}
    /\ mainPc' = "interrupted"
    /\ UNCHANGED <<listening, store, connVars>>

\* accept() or the start of the thread raises an exception that is neither
\* socket.timeout nor KeyboardInterrupt: it leaves the loop, and the outer
\* except logs the fatal error
FatalError ==
    /\ mainPc \in {"accept", "start"}
    /\ mainPc' = "fatal"
    /\ UNCHANGED <<listening, store, connVars>>

\* finally: server_socket.close()
CloseServerSocket ==
    /\ mainPc \in {"interrupted", "fatal"}
    /\ listening' = FALSE
    /\ mainPc' = "stopped"
    /\ UNCHANGED <<store, connVars>>

\* The main thread ends; the interpreter exits without waiting for daemon
\* threads, which stop wherever they are
ProcessExit ==
    /\ mainPc = "stopped"
    /\ mainPc' = "exited"
    /\ UNCHANGED <<listening, store, connVars>>

\* Alive for threads that are not daemon threads
AliveNonDaemon == TRUE

\* A handler thread runs only while the process lives
Alive == mainPc # "exited"

\* ------------------------------------------------------------ handle_client
\* recv returns bytes: decode, parse and dispatch up to the first write
RecvData(c, bytes) ==
    /\ Alive
    /\ pc[c] = "recv"
    /\ bytes # <<>>
    /\ recvd' = [recvd EXCEPT ![c] = "data"]
    /\ request_data' = [request_data EXCEPT ![c] = bytes]
    /\ LET h == HandleRequest(store, bytes)
       IN  /\ files' = [files EXCEPT ![c] = h.files]
           /\ IF h.raised = "None"
              THEN /\ pending' = [pending EXCEPT ![c] = h.response]
                   /\ pc' = [pc EXCEPT ![c] = "send"]
              ELSE /\ pending' = [pending EXCEPT ![c] = Response500]
                   /\ pc' = [pc EXCEPT ![c] = "except"]
    /\ UNCHANGED <<mainVars, store, trace>>

\* RecvEmpty returning past the finally block
RecvEmptyNoClose(c) ==
    /\ Alive
    /\ pc[c] = "recv"
    /\ recvd' = [recvd EXCEPT ![c] = "empty"]
    /\ pc' = [pc EXCEPT ![c] = "done"]
    /\ UNCHANGED <<mainVars, store, request_data, pending, files, trace>>

\* RecvEmpty handing the empty text to parse_request, which rejects it
RecvEmptyAnswers400(c) ==
    /\ Alive
    /\ pc[c] = "recv"
    /\ recvd' = [recvd EXCEPT ![c] = "empty"]
    /\ pending' = [pending EXCEPT ![c] = Response400]
    /\ pc' = [pc EXCEPT ![c] = "send"]
    /\ UNCHANGED <<mainVars, store, request_data, files, trace>>

\* recv returns b'': log and return
RecvEmpty(c) ==
    /\ Alive
    /\ pc[c] = "recv"
    /\ recvd' = [recvd EXCEPT ![c] = "empty"]
    /\ pc' = [pc EXCEPT ![c] = "finally"]
    /\ UNCHANGED <<mainVars, store, request_data, pending, files, trace>>

\* RecvTimeout with a handler that only logs the timeout
RecvTimeoutNoReply(c) ==
    /\ Alive
    /\ pc[c] = "recv"
    /\ recvd' = [recvd EXCEPT ![c] = "timeout"]
    /\ pc' = [pc EXCEPT ![c] = "finally"]
    /\ UNCHANGED <<mainVars, store, request_data, pending, files, trace>>

\* recv raises socket.timeout after REQUEST_TIMEOUT seconds
RecvTimeout(c) ==
    /\ Alive
    /\ pc[c] = "recv"
    /\ recvd' = [recvd EXCEPT ![c] = "timeout"]
    /\ pending' = [pending EXCEPT ![c] = Response408]
    /\ pc' = [pc EXCEPT ![c] = "except"]
    /\ UNCHANGED <<mainVars, store, request_data, files, trace>>

\* RecvError with the exception leaving handle_client and reaching the
\* accept loop
RecvErrorPropagates(c) ==
    /\ Alive
    /\ pc[c] = "recv"
    /\ recvd' = [recvd EXCEPT ![c] = "error"]
    /\ pc' = [pc EXCEPT ![c] = "finally"]
    /\ mainPc' = "fatal"
    /\ UNCHANGED <<listening, store, request_data, pending, files, trace>>

\* recv raises another exception (connection reset)
RecvError(c) ==
    /\ Alive
    /\ pc[c] = "recv"
    /\ recvd' = [recvd EXCEPT ![c] = "error"]
    /\ pending' = [pending EXCEPT ![c] = Response500]
    /\ pc' = [pc EXCEPT ![c] = "except"]
    /\ UNCHANGED <<mainVars, store, request_data, files, trace>>

\* sendall of the response inside the try block: it returns, raises
\* socket.timeout, or raises another exception
Send(c) ==
    /\ Alive
    /\ pc[c] = "send"
    /\ \E result \in {"ok", "timeout", "error"} :
           /\ trace' = [trace EXCEPT ![c] = Append(@, SendEvent(pending[c], result))]
           /\ IF result = "ok"
              THEN /\ pc' = [pc EXCEPT ![c] = "finally"]
                   /\ pending' = [pending EXCEPT ![c] = NoResponse]
              ELSE /\ pc' = [pc EXCEPT ![c] = "except"]
                   /\ pending' = [pending EXCEPT ![c] =
                          IF result = "timeout" THEN Response408 ELSE Response500]
    /\ UNCHANGED <<mainVars, store, recvd, request_data, files>>

\* sendall inside an except block: a failure is swallowed
SendBestEffort(c) ==
    /\ Alive
    /\ pc[c] = "except"
    /\ \E result \in {"ok", "error"} :
           trace' = [trace EXCEPT ![c] = Append(@, SendEvent(pending[c], result))]
    /\ pending' = [pending EXCEPT ![c] = NoResponse]
    /\ pc' = [pc EXCEPT ![c] = "finally"]
    /\ UNCHANGED <<mainVars, store, recvd, request_data, files>>

\* finally: client_socket.close()
Close(c) ==
    /\ Alive
    /\ pc[c] = "finally"
    /\ trace' = [trace EXCEPT ![c] = Append(@, CloseEvent)]
    /\ pc' = [pc EXCEPT ![c] = "done"]
    /\ UNCHANGED <<mainVars, store, recvd, request_data, pending, files>>

\* ----------------------------------------------------------------- claims
\* The sendall calls made on connection c, in order
Sends(c) == SelectSeq(trace[c], LAMBDA e : e.ev = "send")

\* How many times connection c was closed
CloseCount(c) == Len(SelectSeq(trace[c], LAMBDA e : e.ev = "close"))

\* Connection c got bytes that decode and parse
Parsed(c) ==
    /\ recvd[c] = "data"
    /\ Utf8Valid(request_data[c])
    /\ parse_request(Utf8Decode(request_data[c])).ok

ParsedRequest(c) == parse_request(Utf8Decode(request_data[c]))

\* The first response of connection c: the one written first, or the one
\* about to be written when nothing was written yet
FirstResponse(c) ==
    IF Sends(c) # <<>> THEN Sends(c)[1].response ELSE pending[c]

\* C1: handle_client closes the connection exactly once on every way out,
\* and after every sendall it attempted: a returned handler has one close
\* call, the last call it made; a running handler has none.
C1_ClosedOnceAfterSends ==
    \A c \in Conns :
        /\ CloseCount(c) <= 1
        /\ pc[c] = "done" <=> CloseCount(c) = 1
        /\ \A i \in 1..Len(trace[c]) : trace[c][i].ev = "close" => i = Len(trace[c])

\* A handler returned after a failed response and a failed 500, closed once
C1_Witness ==
    \E c \in Conns :
        /\ pc[c] = "done"
        /\ Len(trace[c]) = 3
        /\ trace[c][1].result = "error"
        /\ trace[c][2].result = "error"
        /\ trace[c][3].ev = "close"

\* C2: at most one response is written on a connection, whatever the
\* outcome of writing it.
C2_AtMostOneResponse ==
    \A c \in Conns : Len(Sends(c)) <= 1

\* C3: bytes that cannot be turned into a request, a failed UTF-8 decoding
\* included, are answered 400 with the error page and are not routed.
C3_UnparsableIs400 ==
    \A c \in Conns :
        (recvd[c] = "data" /\ ~Parsed(c)) =>
            /\ FirstResponse(c) = Response400
            /\ files[c] = <<>>

\* C4: a handler does not stay blocked on its read for ever, and one whose
\* read timed out attempts a 408 response and then closes the connection,
\* whether or not that write succeeded.
C4_TimeoutAnswered408ThenClosed ==
    \A c \in Conns :
        /\ (pc[c] = "recv") ~> (pc[c] # "recv")
        /\ (recvd[c] = "timeout") ~>
               (/\ pc[c] = "done"
                /\ Len(Sends(c)) = 1
                /\ Sends(c)[1].response = Response408
                /\ CloseCount(c) = 1)

\* A read timed out, the 408 could not be written, the connection is closed
C4_Witness ==
    \E c \in Conns :
        /\ recvd[c] = "timeout"
        /\ pc[c] = "done"
        /\ Sends(c)[1].response.status_code = 408
        /\ Sends(c)[1].result = "error"
        /\ CloseCount(c) = 1

\* C5: a parsed request whose method is not exactly GET, POST or HEAD is
\* answered 405 with 'Allow: GET, POST, HEAD', whatever its path, and no
\* resource is read from the store.
C5_OtherMethodIs405 ==
    \A c \in Conns :
        (Parsed(c) /\ ParsedRequest(c).method \notin {GET, POST, HEAD}) =>
            /\ FirstResponse(c).status_code = 405
            /\ DictHas(FirstResponse(c).headers, HdrAllow)
            /\ DictGet(FirstResponse(c).headers, HdrAllow) = ValAllow
            /\ files[c] = <<>>

\* 'get /' was answered 405 and the answer was written
C5_Witness ==
    \E c \in Conns :
        /\ Parsed(c)
        /\ ParsedRequest(c).method = Lower(GET)
        /\ Sends(c) # <<>>
        /\ Sends(c)[1].result = "ok"
        /\ Sends(c)[1].response.status_code = 405

\* A text that is a JSON document, however deeply it nests
IsJson(s) == JsonDocument(s, Len(s)).res = "ok"

\* C6: POST /api/echo with an empty or valid JSON body is answered 200 with
\* the envelope holding the parsed body ({} for an empty body); with another
\* body it is answered 400 with the Invalid JSON object; a POST to any other
\* path is answered 404.
C6_PostEcho ==
    \A c \in Conns :
        (Parsed(c) /\ ParsedRequest(c).method = POST) =>
            LET body == ParsedRequest(c).body
                received == IF body = <<>> THEN JsonObj
                            ELSE JsonDocument(body, Len(body)).val
            IN  IF ParsedRequest(c).path # PathApiEcho
                THEN FirstResponse(c).status_code = 404
                ELSE IF body = <<>> \/ IsJson(body)
                THEN /\ FirstResponse(c).status_code = 200
                     /\ FirstResponse(c).body =
                            Utf8Encode(EnvA \o JsonDumps(received, 1) \o EnvB)
                ELSE /\ FirstResponse(c).status_code = 400
                     /\ FirstResponse(c).body = Utf8Encode(EchoError)

\* The request path without its query suffix
C7_Path(c) ==
    LET p == ParsedRequest(c).path
        q == Find(p, <<63>>, 1)
    IN  IF q = 0 THEN p ELSE SubSeq(p, 1, q - 1)

\* The resource a path names: the route table first, else the path without
\* its leading slashes and with every '..' taken out
C7_Name(c) ==
    IF C7_Path(c) = PathRoot THEN NameIndexHtml
    ELSE IF C7_Path(c) \in {PathBook, PathBookJson} THEN NameBookJson
    ELSE Remove(LStrip(C7_Path(c), {47}), <<46, 46>>)

\* C7: a GET is answered 200 with the content and content type of the
\* resource its path names exactly when the store read of that name
\* succeeds, and 404 with the error page when the read is NotFound, Denied
\* or IOError; the GET handler produces no other status.
C7_GetIs200Or404 ==
    \A c \in Conns :
        (Parsed(c) /\ ParsedRequest(c).method = GET) =>
            LET read == read_file_safely(store, C7_Name(c))
                r == FirstResponse(c)
            IN  /\ files[c] = <<C7_Name(c)>>
                /\ IF read.success
                   THEN /\ r.status_code = 200
                        /\ r.body = (IF read.content.bytes THEN read.content.data
                                     ELSE Utf8Encode(read.content.data))
                        /\ DictGet(r.headers, HdrContentType)
                               = get_content_type(C7_Name(c))
                   ELSE /\ read.error \in {"NotFound", "Denied", "IOError"}
                        /\ r.status_code = 404
                        /\ DictGet(r.headers, HdrContentType) = TypeTextHtml
                        /\ r.body = Utf8Encode(create_error_page(404, TxtNotFound,
                                        Msg404a \o C7_Path(c) \o Msg404b))

\* A GET of a path outside the route table whose resource the store refuses
\* to read was answered 404
C7_Witness ==
    \E c \in Conns :
        /\ Parsed(c)
        /\ ParsedRequest(c).method = GET
        /\ C7_Path(c) \notin {PathRoot, PathBook, PathBookJson}
        /\ read_file_safely(store, C7_Name(c)).error = "Denied"
        /\ Sends(c) # <<>>
        /\ Sends(c)[1].result = "ok"
        /\ Sends(c)[1].response.status_code = 404

\* C8: a HEAD reads the same resource and gets the same status (200 or 404)
\* and, on success, the same Content-Type as a GET of the same path against
\* the same store; its body is empty and its Content-Length is 0.
C8_HeadMatchesGet ==
    \A c \in Conns :
        (Parsed(c) /\ ParsedRequest(c).method = HEAD) =>
            LET get == handle_get_request(store, ParsedRequest(c).path)
                r == FirstResponse(c)
            IN  /\ files[c] = get.files
                /\ r.status_code = get.response.status_code
                /\ r.status_code \in {200, 404}
                /\ r.status_code = 200 =>
                       DictGet(r.headers, HdrContentType)
                           = DictGet(get.response.headers, HdrContentType)
                /\ r.body = <<>>
                /\ DictGet(r.headers, HdrContentLength) = <<48>>

\* A HEAD with a query suffix was answered 200 with no body for a resource
\* whose GET body is not empty
C8_Witness ==
    \E c \in Conns :
        /\ Parsed(c)
        /\ ParsedRequest(c).method = HEAD
        /\ Find(ParsedRequest(c).path, <<63>>, 1) > 0
        /\ handle_get_request(store, ParsedRequest(c).path).response.body # <<>>
        /\ Sends(c) # <<>>
        /\ Sends(c)[1].result = "ok"
        /\ Sends(c)[1].response.status_code = 200
        /\ Sends(c)[1].response.body = <<>>

\* C9: the accept loop never waits for a handler: whatever the handlers are
\* doing, accept() can return the next connection and the thread for an
\* accepted connection can be started.
C9_AcceptorNeverWaits ==
    /\ mainPc = "accept" =>
           \A c \in Conns :
               (pc[c] = "idle" /\ \A d \in Conns : d < c => pc[d] # "idle")
                   => ENABLED Accept(c)
    /\ mainPc = "start" =>
           \A c \in Conns : pc[c] = "accepted" => ENABLED StartThread(c)

\* A later connection is served and closed while an earlier handler is still
\* blocked on its read
C9_Witness ==
    \E c, d \in Conns :
        /\ d < c
        /\ pc[d] = "recv"
        /\ pc[c] = "done"
        /\ Sends(c) # <<>>
        /\ Sends(c)[1].response.status_code = 200

\* The handler threads that were started
Started(c) == pc[c] \notin {"idle", "accepted"}

HandlerStep(c) == Started(c) /\ (pc'[c] # pc[c] \/ trace'[c] # trace[c])

\* C11: no failure inside a handler reaches the accept loop: a handler step,
\* whatever its outcome (parse failure, read timeout, failed resource read,
\* failed write, other exception), leaves the loop where it is and the
\* listening socket open, so the loop still accepts and dispatches; an
\* accept timeout only makes the loop call accept() again.
C11_HandlerFailuresStayInHandler ==
    [][ /\ (\E c \in Conns : HandlerStep(c)) =>
               /\ UNCHANGED mainVars
               /\ mainPc \in {"accept", "start"} => listening'
        /\ AcceptTimeout => (mainPc' = "accept" /\ listening')
        /\ (mainPc \in {"accept", "start"} /\ mainPc' \notin {"accept", "start"}) =>
               UNCHANGED connVars ]_vars

\* One handler ended after its response and the 500 that followed both
\* failed to be written, another after a read timeout, and the loop is
\* in accept() with the listening socket open
C11_Witness ==
    /\ mainPc = "accept"
    /\ listening
    /\ \E c, d \in Conns :
           /\ pc[c] = "done"
           /\ Len(Sends(c)) = 2
           /\ Sends(c)[1].result = "error"
           /\ Sends(c)[2].result = "error"
           /\ pc[d] = "done"
           /\ recvd[d] = "timeout"

\* The text connection c received, decoded
RequestText(c) == Utf8Decode(request_data[c])

\* The text before the first CRLF
FirstLine(text) ==
    LET k == Find(text, CRLF, 1)
    IN  IF k = 0 THEN text ELSE SubSeq(text, 1, k - 1)

\* Where the whitespace-separated tokens of s start
TokenStarts(s) ==
    {i \in 1..Len(s) : s[i] \notin Whitespace /\ (i = 1 \/ s[i - 1] \in Whitespace)}

\* The token of s that starts at i
TokenAt(s, i) ==
    LET ends == {j \in i..Len(s) : \A k \in i..j : s[k] \notin Whitespace}
    IN  SubSeq(s, i, CHOOSE j \in ends : \A k \in ends : k <= j)

\* The n-th token of s
Token(s, n) ==
    TokenAt(s, CHOOSE i \in TokenStarts(s) :
                   Cardinality({j \in TokenStarts(s) : j < i}) = n - 1)

\* C12: parse_request succeeds exactly when the text before the first CRLF
\* has at least two whitespace-separated tokens; then method and path are
\* the first and the second token; with an empty first line or fewer than
\* two tokens it returns no request.
C12_ParsesIffTwoTokens ==
    \A c \in Conns :
        (recvd[c] = "data" /\ Utf8Valid(request_data[c])) =>
            LET line == FirstLine(RequestText(c))
                request == parse_request(RequestText(c))
            IN  IF Cardinality(TokenStarts(line)) >= 2
                THEN /\ request.ok
                     /\ request.method = Token(line, 1)
                     /\ request.path = Token(line, 2)
                ELSE request = NoRequest

\* A request line that starts with a blank and has its two tokens separated
\* by a tab was parsed; header lines follow it
C12_Witness ==
    \E c \in Conns :
        /\ Parsed(c)
        /\ FirstLine(RequestText(c))[1] = 32
        /\ 9 \in {FirstLine(RequestText(c))[i] : i \in 1..Len(FirstLine(RequestText(c)))}
        /\ ParsedRequest(c).method = GET
        /\ ParsedRequest(c).path = PathRoot
        /\ Len(RequestText(c)) > Len(FirstLine(RequestText(c)))

\* s.endswith(p)
EndsWith(s, p) == Len(p) <= Len(s) /\ SubSeq(s, Len(s) - Len(p) + 1, Len(s)) = p

\* A response whose body is the error page for its status, whatever the
\* message, served as text/html
IsErrorPage(r) ==
    LET head == PageT0 \o IntToStr(r.status_code) \o PageT1 \o r.status_text
                \o PageT2 \o IntToStr(r.status_code) \o PageT3 \o r.status_text
                \o PageT4
    IN  /\ r.body # <<>>
        /\ Len(r.body) >= Len(Utf8Encode(head)) + Len(Utf8Encode(PageT5))
        /\ StartsWith(r.body, Utf8Encode(head))
        /\ EndsWith(r.body, Utf8Encode(PageT5))
        /\ DictGet(r.headers, HdrContentType) = TypeTextHtml

\* The responses of connection c: those written and the one about to be
Responses(c) ==
    {Sends(c)[i].response : i \in 1..Len(Sends(c))}
        \cup (IF pending[c] = NoResponse THEN {} ELSE {pending[c]})

\* The 400 of the echo endpoint
IsEcho400(c, r) ==
    /\ Parsed(c)
    /\ ParsedRequest(c).method = POST
    /\ ParsedRequest(c).path = PathApiEcho
    /\ r.status_code = 400

\* The 404 of a HEAD request
IsHead404(c, r) ==
    /\ Parsed(c)
    /\ ParsedRequest(c).method = HEAD
    /\ r.status_code = 404

\* C13: every response with a status outside 200..299 carries the error
\* page as a non-empty HTML body, except the 400 of the echo endpoint, whose
\* body is the Invalid JSON object.
C13_ErrorsCarryErrorPage ==
    \A c \in Conns :
        \A r \in Responses(c) :
            r.status_code \notin 200..299 =>
                IF IsEcho400(c, r)
                THEN /\ r.body = Utf8Encode(EchoError)
                     /\ DictGet(r.headers, HdrContentType) = TypeAppJson
                ELSE IsErrorPage(r)

\* C13 as the code has it: the 404 of a HEAD request is a second exception,
\* its body is empty.
C13_ErrorsCarryErrorPageButHead ==
    \A c \in Conns :
        \A r \in Responses(c) :
            r.status_code \notin 200..299 =>
                IF IsEcho400(c, r)
                THEN /\ r.body = Utf8Encode(EchoError)
                     /\ DictGet(r.headers, HdrContentType) = TypeAppJson
                ELSE IF IsHead404(c, r)
                THEN r.body = <<>>
                ELSE IsErrorPage(r)

\* A HEAD of a missing resource was answered 404 with an empty body, and
\* the 500 written after that write failed carries the error page
C13_Witness ==
    \E c \in Conns :
        /\ Parsed(c)
        /\ ParsedRequest(c).method = HEAD
        /\ Len(Sends(c)) = 2
        /\ Sends(c)[1].response.status_code = 404
        /\ Sends(c)[1].response.body = <<>>
        /\ Sends(c)[2].response.status_code = 500
        /\ IsErrorPage(Sends(c)[2].response)

\* C14: a handler whose read returned no bytes writes no response, neither
\* parses nor routes (no resource is asked of the store), and goes straight
\* to closing the connection, which is the only call it makes on the socket.
C14_EmptyReadNoResponse ==
    \A c \in Conns :
        recvd[c] = "empty" =>
            /\ Sends(c) = <<>>
            /\ pending[c] = NoResponse
            /\ files[c] = <<>>
            /\ request_data[c] = <<>>
            /\ pc[c] \in {"finally", "done"}
            /\ (pc[c] = "finally" /\ Alive) => ENABLED Close(c)
            /\ pc[c] = "done" => trace[c] = <<CloseEvent>>

\* A handler returned after an empty read, having only closed the connection
C14_Witness ==
    \E c \in Conns :
        /\ recvd[c] = "empty"
        /\ pc[c] = "done"
        /\ trace[c] = <<CloseEvent>>

\* The lines of a request text between its request line and its first
\* empty line that hold a colon
HeaderLines(text) ==
    LET lines == Split(text, CRLF)
        empty == {i \in 2..Len(lines) : lines[i] = <<>>}
        last == IF empty = {} THEN Len(lines)
                ELSE (CHOOSE i \in empty : \A j \in empty : i <= j) - 1
    IN  SelectSeq(SubSeq(lines, 2, last), LAMBDA l : Find(l, <<58>>, 1) > 0)

\* The name and the value of a header line: the text on either side of its
\* first colon, trimmed, the name in lower case
HeaderKey(line) == Lower(Strip(SubSeq(line, 1, Find(line, <<58>>, 1) - 1)))
HeaderValue(line) == Strip(Drop(line, Find(line, <<58>>, 1) + 1))

\* The keys of headers are unique lower-cased names, those of the header
\* lines
HeaderKeysOf(headers, hl) ==
    /\ \A i, j \in 1..Len(headers) : headers[i][1] = headers[j][1] => i = j
    /\ \A i \in 1..Len(headers) : headers[i][1] = Lower(headers[i][1])
    /\ {headers[i][1] : i \in 1..Len(headers)} = {HeaderKey(hl[n]) : n \in 1..Len(hl)}

\* C15: the keys of the parsed headers are unique lower-cased names, and a
\* name that occurs on several header lines keeps the value of its first
\* line: a later occurrence does not overwrite it.
C15_FirstOccurrenceKept ==
    \A c \in Conns :
        Parsed(c) =>
            LET headers == ParsedRequest(c).headers
                hl == HeaderLines(RequestText(c))
            IN  /\ HeaderKeysOf(headers, hl)
                /\ \A i \in 1..Len(headers) :
                       LET n == CHOOSE n \in 1..Len(hl) :
                                    /\ HeaderKey(hl[n]) = headers[i][1]
                                    /\ \A m \in 1..(n - 1) : HeaderKey(hl[m]) # headers[i][1]
                       IN  headers[i][2] = HeaderValue(hl[n])

\* C15 as the code has it: a name that occurs on several header lines has
\* the value of its last line.
C15_LastOccurrenceWins ==
    \A c \in Conns :
        Parsed(c) =>
            LET headers == ParsedRequest(c).headers
                hl == HeaderLines(RequestText(c))
            IN  /\ HeaderKeysOf(headers, hl)
                /\ \A i \in 1..Len(headers) :
                       LET n == CHOOSE n \in 1..Len(hl) :
                                    /\ HeaderKey(hl[n]) = headers[i][1]
                                    /\ \A m \in (n + 1)..Len(hl) : HeaderKey(hl[m]) # headers[i][1]
                       IN  headers[i][2] = HeaderValue(hl[n])

\* A request whose header lines name 'a' twice, as 'a:1' and then as
\* ' A : 2:3 ', was parsed: its one header is a with the value 2:3
C15_Witness ==
    \E c \in Conns :
        /\ Parsed(c)
        /\ Len(HeaderLines(RequestText(c))) = 2
        /\ HeaderValue(HeaderLines(RequestText(c))[1]) = <<49>>
        /\ HeaderValue(HeaderLines(RequestText(c))[2]) = <<50, 58, 51>>
        /\ ParsedRequest(c).headers = << <<<<97>>, <<50, 58, 51>>>> >>

\* Where the first blank line (CRLF CRLF) of a text starts, or 0
BlankLine(text) == Find(text, CRLF \o CRLF, 1)

\* C16: the body of a parsed request is the text after the first CRLF CRLF
\* of the input, unchanged, or the empty text when there is none; and the
\* headers are those of the text before that blank line.
C16_BodyAfterFirstBlankLine ==
    \A c \in Conns :
        Parsed(c) =>
            LET text == RequestText(c)
                k == BlankLine(text)
            IN  IF k = 0
                THEN ParsedRequest(c).body = <<>>
                ELSE /\ ParsedRequest(c).body = Drop(text, k + 4)
                     /\ ParsedRequest(c).headers
                            = parse_request(SubSeq(text, 1, k - 1)).headers

\* A parsed request with one header before its blank line and, after it, a
\* body of two lines, the second of which reads like a header
C16_Witness ==
    \E c \in Conns :
        /\ Parsed(c)
        /\ BlankLine(RequestText(c)) > 0
        /\ Len(ParsedRequest(c).headers) = 1
        /\ Find(ParsedRequest(c).body, CRLF, 1) > 1
        /\ HeaderLines(ParsedRequest(c).body) # <<>>

\* The bytes CRLF CRLF
EmptyLine == Utf8Encode(CRLF \o CRLF)

\* The header lines on the wire: the lines before the first empty line,
\* without the status line
WireHeaderLines(wire) ==
    Tail(Split(SubSeq(wire, 1, Find(wire, EmptyLine, 1) - 1), Utf8Encode(CRLF)))

\* The bytes on the wire after the first empty line
WireBody(wire) == Drop(wire, Find(wire, EmptyLine, 1) + 4)

\* C17: in the bytes of every response built, there is one Content-Length
\* header line and its value is the number of bytes that follow the header
\* block, which is the UTF-8 length of a text body and the length of a
\* bytes body.
C17_ContentLengthIsByteLength ==
    \A c \in Conns :
        \A r \in Responses(c) :
            LET wire == Wire(r)
                name == Utf8Encode(HdrContentLength \o <<58, 32>>)
                lines == SelectSeq(WireHeaderLines(wire), LAMBDA l : StartsWith(l, name))
            IN  /\ Find(wire, EmptyLine, 1) > 0
                /\ Len(lines) = 1
                /\ lines[1] = name \o Utf8Encode(IntToStr(Len(WireBody(wire))))
                /\ Len(WireBody(wire)) = Len(r.body)

\* A text file whose content has a character of two bytes was served: the
\* Content-Length is the number of bytes, not of characters
C17_Witness ==
    \E c \in Conns :
        /\ Parsed(c)
        /\ ParsedRequest(c).method = GET
        /\ pending[c].status_code = 200
        /\ ~read_file_safely(store, C7_Name(c)).content.bytes
        /\ Len(pending[c].body) > Len(read_file_safely(store, C7_Name(c)).content.data)
        /\ DictGet(pending[c].headers, HdrContentLength) = IntToStr(Len(pending[c].body))

\* C18: the bytes of a built response that follow its first CRLF CRLF are
\* the body it was built with, unchanged (for a file read as bytes, the
\* bytes of the file), and the lines before it are the status line and one
\* line for each header: the header block has no empty line of its own.
C18_BodyRoundTrip ==
    \A c \in Conns :
        \A r \in Responses(c) :
            LET wire == Wire(r)
            IN  /\ Find(wire, EmptyLine, 1) > 0
                /\ WireBody(wire) = r.body
                /\ Len(WireHeaderLines(wire)) = Len(r.headers)
                /\ (/\ Parsed(c)
                    /\ ParsedRequest(c).method = GET
                    /\ r.status_code = 200
                    /\ read_file_safely(store, C7_Name(c)).content.bytes)
                       => WireBody(wire) = FsFile(store, C7_Name(c)).bytes

\* A file read as bytes whose content holds CRLF CRLF was served
C18_Witness ==
    \E c \in Conns :
        /\ Parsed(c)
        /\ ParsedRequest(c).method = GET
        /\ pending[c].status_code = 200
        /\ read_file_safely(store, C7_Name(c)).content.bytes
        /\ Find(pending[c].body, EmptyLine, 1) > 0
        /\ WireBody(Wire(pending[c])) = pending[c].body

\* Connection c got a GET or HEAD request
IsGetOrHead(c) == Parsed(c) /\ ParsedRequest(c).method \in {GET, HEAD}

\* C19: the resource name a GET or HEAD handler hands to the store for a
\* path outside the route table holds no '..'.
C19_NoDotDotInName ==
    \A c \in Conns :
        (IsGetOrHead(c) /\ ~DictHas(route_map, C7_Path(c))) =>
            /\ Len(files[c]) = 1
            /\ Find(files[c][1], <<46, 46>>, 1) = 0

\* A path with '..' in it was handled, and the name read still holds a dot
C19_Witness ==
    \E c \in Conns :
        /\ IsGetOrHead(c)
        /\ ~DictHas(route_map, C7_Path(c))
        /\ Find(C7_Path(c), <<46, 46>>, 1) > 0
        /\ Find(files[c][1], <<46>>, 1) > 0
        /\ Sends(c) # <<>>

\* C20: the resource name a GET or HEAD handler hands to the store never
\* begins with '/': it is a path relative to the serving directory, and no
\* request is answered with a file outside of it.
C20_NameIsRelative ==
    \A c \in Conns :
        IsGetOrHead(c) =>
            /\ Len(files[c]) = 1
            /\ ~FsAbs(files[c][1])

\* ------------------------------------------------------------------ inputs
\* A request with an empty header block
Request(method, path, body) ==
    method \o <<32>> \o path \o <<32>> \o HTTP11 \o CRLF \o CRLF \o body

\* What the clients of the concurrency specifications send: a request that
\* is served, one that does not parse, and bytes that are not UTF-8
ConcMenu ==
    { Request(GET, PathRoot, <<>>),
      GET,
      <<255, 254>> }

\* What the clients of ServeSpec send when they send in time
ServeMenu == {Request(GET, PathRoot, <<>>)}

\* What the single client of HandlerSpec sends, besides the generated paths
FixedMenu ==
    ConcMenu \cup
    { Request(GET, PathRoot \o SegBook \o <<46>> \o SegPng, <<>>),
      Request(HEAD, PathBook, <<>>),
      Request(POST, PathApiEcho, <<91, 49, 44, 32, 50, 93>>),
      Request(POST, PathApiEcho, <<110, 111, 116, 45, 106, 115, 111, 110>>),
      Request(POST, PathApiEcho, <<>>),
      Request(POST, PathApiEcho, <<91, 91, 91, 49, 93, 93, 93>>),
      Request(POST, <<47, 120>>, <<123, 125>>),
      Request(DELETE, <<47, 120>>, <<>>),
      Request(Lower(GET), PathRoot, <<>>),
      CRLF \o Request(GET, PathRoot, <<>>),
      <<32>> }

\* The pieces request paths are generated from: '/', '.', '..', '?', 'book',
\* '.json'
PathSegments == {<<47>>, <<46>>, <<46, 46>>, <<63>>, SegBook, <<46>> \o SegJson}

RECURSIVE Flatten(_)
Flatten(parts) == IF parts = <<>> THEN <<>> ELSE parts[1] \o Flatten(Tail(parts))

GenPaths ==
    UNION { {Flatten(f) : f \in [1..n -> PathSegments]} : n \in 1..MaxPathLen }

PathRequests == {Request(m, p, <<>>) : m \in {GET, HEAD}, p \in GenPaths}

HandlerMenu == FixedMenu \cup PathRequests

\* The request lines of the generated request texts: empty, blank, one
\* token, two tokens after a blank and around a tab, two tokens around a
\* line feed, three tokens, four tokens, two tokens and a carriage return
FirstLines ==
    { <<>>,
      <<32>>,
      GET,
      <<32>> \o GET \o <<9>> \o PathRoot,
      GET \o <<10>> \o PathRoot,
      GET \o <<32>> \o PathRoot \o <<32>> \o HTTP11,
      HEAD \o <<32, 32>> \o PathBook \o <<32, 120, 32, 121>>,
      DELETE \o <<32>> \o PathRoot \o <<13>> }

\* The lines that follow: empty, 'a:1', ' A : 2:3 ', 'b'
LinePieces ==
    { <<>>,
      <<97,58,49>>,
      <<32,65,32,58,32,50,58,51,32>>,
      <<98>> }

\* lines joined to a request line, each after a CRLF
RECURSIVE AppendLines(_, _)
AppendLines(text, lines) ==
    IF lines = <<>> THEN text
    ELSE AppendLines(text \o CRLF \o lines[1], Tail(lines))

ParseMenu ==
    { Utf8Encode(AppendLines(first, lines)) :
          first \in FirstLines,
          lines \in UNION {[1..n -> LinePieces] : n \in 0..MaxLines} } \ {<<>>}

\* The pieces file contents are generated from: CRLF, the two bytes of
\* U+00E9, 'a', and a byte that is not UTF-8
BodyPieces == {<<13, 10>>, <<195, 169>>, <<97>>, <<255>>}

BodyContents ==
    UNION { {Flatten(f) : f \in [1..n -> BodyPieces]} : n \in 0..MaxBody }

\* For each generated content, a serving directory whose index.html (read
\* as text) and book.png (read as bytes) have that content
BodyStores ==
    { { File(FALSE, <<NameIndexHtml>>, b, TRUE),
        File(FALSE, <<SegBook \o <<46>> \o SegPng>>, b, TRUE) } : b \in BodyContents }

\* Requests whose responses have a text body, a bytes body, no body, an
\* extra header, an error page that quotes a path with U+00E9, a JSON body
BuildMenu ==
    { Request(GET, PathRoot, <<>>),
      Request(GET, PathRoot \o SegBook \o <<46>> \o SegPng, <<>>),
      Request(HEAD, PathRoot, <<>>),
      Request(DELETE, PathRoot, <<>>),
      Request(GET, <<47, 195, 169>>, <<>>),
      Request(POST, PathApiEcho, <<91, 49, 44, 32, 50, 93>>),
      GET }

\* ----------------------------------------------------------- specifications
\* The server with MaxConn clients, up to and including its shutdown
Next ==
    \/ \E c \in Conns : Accept(c)
    \/ \E c \in Conns : StartThread(c)
    \/ AcceptTimeout
    \/ Interrupt
    \/ FatalError
    \/ CloseServerSocket
    \/ ProcessExit
    \/ \E c \in Conns : \E bytes \in ConcMenu : RecvData(c, bytes)
    \/ \E c \in Conns : RecvEmpty(c)
    \/ \E c \in Conns : RecvTimeout(c)
    \/ \E c \in Conns : RecvError(c)
    \/ \E c \in Conns : Send(c)
    \/ \E c \in Conns : SendBestEffort(c)
    \/ \E c \in Conns : Close(c)

Spec == Init /\ [][Next]_vars

\* The server while it runs (no interrupt).  A blocking socket call returns
\* or raises within REQUEST_TIMEOUT seconds and a started thread is
\* scheduled, so these steps are taken when they stay possible; nothing
\* makes a client send.
ServeNext ==
    \/ \E c \in Conns : Accept(c)
    \/ \E c \in Conns : StartThread(c)
    \/ AcceptTimeout
    \/ \E c \in Conns : \E bytes \in ServeMenu : RecvData(c, bytes)
    \/ \E c \in Conns : RecvEmpty(c)
    \/ \E c \in Conns : RecvTimeout(c)
    \/ \E c \in Conns : RecvError(c)
    \/ \E c \in Conns : Send(c)
    \/ \E c \in Conns : SendBestEffort(c)
    \/ \E c \in Conns : Close(c)

ServeFairness ==
    \A c \in Conns :
        /\ WF_vars(StartThread(c))
        /\ WF_vars(RecvTimeout(c))
        /\ WF_vars(Send(c))
        /\ WF_vars(SendBestEffort(c))
        /\ WF_vars(Close(c))

ServeSpec == Init /\ [][ServeNext]_vars /\ ServeFairness

\* One connection, every request of HandlerMenu, both stores
HandlerInit == InitWith(StoreConfigs)

HandlerNext ==
    \/ Accept(1)
    \/ StartThread(1)
    \/ pc[1] = "recv" /\ \E bytes \in HandlerMenu : RecvData(1, bytes)
    \/ RecvEmpty(1)
    \/ RecvTimeout(1)
    \/ RecvError(1)
    \/ Send(1)
    \/ SendBestEffort(1)
    \/ Close(1)

HandlerSpec == HandlerInit /\ [][HandlerNext]_vars

\* One connection that receives a generated request text, up to the end of
\* parsing and dispatch
ParseNext ==
    \/ Accept(1)
    \/ StartThread(1)
    \/ pc[1] = "recv" /\ \E bytes \in ParseMenu : RecvData(1, bytes)

ParseSpec == Init /\ [][ParseNext]_vars

\* One connection and a serving directory with generated file contents, up
\* to the response built
BuildInit == InitWith(BodyStores)

BuildNext ==
    \/ Accept(1)
    \/ StartThread(1)
    \/ pc[1] = "recv" /\ \E bytes \in BuildMenu : RecvData(1, bytes)
    \/ RecvTimeout(1)

BuildSpec == BuildInit /\ [][BuildNext]_vars
=============================================================================
